---- MODULE Spec2Model ----
(***************************************************************************)
(* A model of the voice agent (src/agent/voice_agent.py), its persisted    *)
(* store (src/database/db.py) and the supervisor dashboard's answer        *)
(* endpoints (src/web/dashboard.py).                                       *)
(*                                                                         *)
(* Texts are TLA+ strings in the state; Chars maps each text of the finite *)
(* universe to its characters, on which the text operations of the source  *)
(* (lower, strip, split, re.sub, the in operator, difflib) are computed.   *)
(***************************************************************************)
EXTENDS Integers, Sequences, FiniteSets, TLC

(***************************************************************************)
(* Text: the characters of every text the model handles.                   *)
(***************************************************************************)
Chars ==
    ("" :> <<>>)
    @@ ("Um." :> <<"U", "m", ".">>)
    @@ ("What are your hours?" :> <<"W", "h", "a", "t", " ", "a", "r", "e", " ", "y", "o", "u", "r", " ", "h", "o", "u", "r", "s", "?">>)
    @@ ("Is parking available?" :> <<"I", "s", " ", "p", "a", "r", "k", "i", "n", "g", " ", "a", "v", "a", "i", "l", "a", "b", "l", "e", "?">>)
    @@ ("is parking available?" :> <<"i", "s", " ", "p", "a", "r", "k", "i", "n", "g", " ", "a", "v", "a", "i", "l", "a", "b", "l", "e", "?">>)
    @@ ("Yes, it is." :> <<"Y", "e", "s", ",", " ", "i", "t", " ", "i", "s", ".">>)
    @@ ("I'm Not Sure, let me check." :> <<"I", "'", "m", " ", "N", "o", "t", " ", "S", "u", "r", "e", ",", " ", "l", "e", "t", " ", "m", "e", " ", "c", "h", "e", "c", "k", ".">>)
    @@ ("Parking is free." :> <<"P", "a", "r", "k", "i", "n", "g", " ", "i", "s", " ", "f", "r", "e", "e", ".">>)
    @@ ("Yes, it is. " :> <<"Y", "e", "s", ",", " ", "i", "t", " ", "i", "s", ".", " ">>)
    @@ ("Yes." :> <<"Y", "e", "s", ".">>)
    @@ ("Hi!" :> <<"H", "i", "!">>)
    @@ ("Ok." :> <<"O", "k", ".">>)
    @@ ("Ok?" :> <<"O", "k", "?">>)
    @@ ("Bye bye bye." :> <<"B", "y", "e", " ", "b", "y", "e", " ", "b", "y", "e", ".">>)
    @@ ("Okay then." :> <<"O", "k", "a", "y", " ", "t", "h", "e", "n", ".">>)
    @@ ("Walk ins?" :> <<"W", "a", "l", "k", " ", "i", "n", "s", "?">>)
    @@ ("Do you?" :> <<"D", "o", " ", "y", "o", "u", "?">>)
    @@ ("When are your open?" :> <<"W", "h", "e", "n", " ", "a", "r", "e", " ", "y", "o", "u", "r", " ", "o", "p", "e", "n", "?">>)
    @@ ("Can I book an appointment?" :> <<"C", "a", "n", " ", "I", " ", "b", "o", "o", "k", " ", "a", "n", " ", "a", "p", "p", "o", "i", "n", "t", "m", "e", "n", "t", "?">>)
    @@ ("When are you open?" :> <<"W", "h", "e", "n", " ", "a", "r", "e", " ", "y", "o", "u", " ", "o", "p", "e", "n", "?">>)
    @@ ("???" :> <<"?", "?", "?">>)
    @@ ("Cat?" :> <<"C", "a", "t", "?">>)
    @@ ("Your cancellation policy." :> <<"Y", "o", "u", "r", " ", "c", "a", "n", "c", "e", "l", "l", "a", "t", "i", "o", "n", " ", "p", "o", "l", "i", "c", "y", ".">>)
    @@ ("what are your hours" :> <<"w", "h", "a", "t", " ", "a", "r", "e", " ", "y", "o", "u", "r", " ", "h", "o", "u", "r", "s">>)
    @@ ("when are you open" :> <<"w", "h", "e", "n", " ", "a", "r", "e", " ", "y", "o", "u", " ", "o", "p", "e", "n">>)
    @@ ("where are you located" :> <<"w", "h", "e", "r", "e", " ", "a", "r", "e", " ", "y", "o", "u", " ", "l", "o", "c", "a", "t", "e", "d">>)
    @@ ("what services do you offer" :> <<"w", "h", "a", "t", " ", "s", "e", "r", "v", "i", "c", "e", "s", " ", "d", "o", " ", "y", "o", "u", " ", "o", "f", "f", "e", "r">>)
    @@ ("how much is a haircut" :> <<"h", "o", "w", " ", "m", "u", "c", "h", " ", "i", "s", " ", "a", " ", "h", "a", "i", "r", "c", "u", "t">>)
    @@ ("do you accept walk ins" :> <<"d", "o", " ", "y", "o", "u", " ", "a", "c", "c", "e", "p", "t", " ", "w", "a", "l", "k", " ", "i", "n", "s">>)
    @@ ("do you take walk ins" :> <<"d", "o", " ", "y", "o", "u", " ", "t", "a", "k", "e", " ", "w", "a", "l", "k", " ", "i", "n", "s">>)
    @@ ("walk ins" :> <<"w", "a", "l", "k", " ", "i", "n", "s">>)
    @@ ("how to book appointment" :> <<"h", "o", "w", " ", "t", "o", " ", "b", "o", "o", "k", " ", "a", "p", "p", "o", "i", "n", "t", "m", "e", "n", "t">>)
    @@ ("what is your cancellation policy" :> <<"w", "h", "a", "t", " ", "i", "s", " ", "y", "o", "u", "r", " ", "c", "a", "n", "c", "e", "l", "l", "a", "t", "i", "o", "n", " ", "p", "o", "l", "i", "c", "y">>)
    @@ ("do you offer hair coloring" :> <<"d", "o", " ", "y", "o", "u", " ", "o", "f", "f", "e", "r", " ", "h", "a", "i", "r", " ", "c", "o", "l", "o", "r", "i", "n", "g">>)
    @@ ("what brands do you use" :> <<"w", "h", "a", "t", " ", "b", "r", "a", "n", "d", "s", " ", "d", "o", " ", "y", "o", "u", " ", "u", "s", "e">>)

Texts == DOMAIN Chars

\* The text whose characters are cs (cs is always a text of the universe).
Str(cs) == CHOOSE t \in Texts : Chars[t] = cs

UpperCase ==
    <<"A","B","C","D","E","F","G","H","I","J","K","L","M",
      "N","O","P","Q","R","S","T","U","V","W","X","Y","Z">>

LowerCase ==
    <<"a","b","c","d","e","f","g","h","i","j","k","l","m",
      "n","o","p","q","r","s","t","u","v","w","x","y","z">>

Digits == {"0","1","2","3","4","5","6","7","8","9"}

\* str.lower() on one character.
LowerChar(c) ==
    IF \E i \in 1..26 : UpperCase[i] = c
    THEN LowerCase[CHOOSE i \in 1..26 : UpperCase[i] = c]
    ELSE c

\* str.lower()
Lower(cs) == [i \in 1..Len(cs) |-> LowerChar(cs[i])]

\* \s of the regular expressions and the whitespace of strip() and split().
IsSpace(c) == c = " "

\* \w of the regular expressions.
IsWordChar(c) ==
    \/ \E i \in 1..26 : UpperCase[i] = c \/ LowerCase[i] = c
    \/ c \in Digits
    \/ c = "_"

\* s.strip(chars): drop leading and trailing characters that are in drop.
StripSet(cs, drop) ==
    LET keep == {i \in 1..Len(cs) : cs[i] \notin drop}
        lo   == CHOOSE i \in keep : \A j \in keep : i <= j
        hi   == CHOOSE i \in keep : \A j \in keep : j <= i
    IN  IF keep = {} THEN <<>> ELSE SubSeq(cs, lo, hi)

\* s.strip()
Strip(cs) == StripSet(cs, {" "})

\* re.sub(r'[^\w\s]', '', s)
RECURSIVE StripPunctuation(_)
StripPunctuation(cs) ==
    IF cs = <<>> THEN <<>>
    ELSE IF IsWordChar(Head(cs)) \/ IsSpace(Head(cs))
         THEN <<Head(cs)>> \o StripPunctuation(Tail(cs))
         ELSE StripPunctuation(Tail(cs))

\* re.sub(r'\s+', ' ', s)
RECURSIVE CollapseSpaces(_)
CollapseSpaces(cs) ==
    IF cs = <<>> THEN <<>>
    ELSE IF IsSpace(Head(cs))
         THEN IF Len(cs) > 1 /\ IsSpace(cs[2])
              THEN CollapseSpaces(Tail(cs))
              ELSE <<" ">> \o CollapseSpaces(Tail(cs))
         ELSE <<Head(cs)>> \o CollapseSpaces(Tail(cs))

\* s.split(): the maximal runs of non-whitespace characters, in order.
RECURSIVE SplitFrom(_, _, _)
SplitFrom(cs, i, word) ==
    IF i > Len(cs)
    THEN IF word = <<>> THEN <<>> ELSE <<word>>
    ELSE IF IsSpace(cs[i])
         THEN (IF word = <<>> THEN <<>> ELSE <<word>>) \o SplitFrom(cs, i + 1, <<>>)
         ELSE SplitFrom(cs, i + 1, Append(word, cs[i]))

Split(cs) == SplitFrom(cs, 1, <<>>)

\* set(s.split())
WordSet(cs) == {Split(cs)[i] : i \in 1..Len(Split(cs))}

\* needle in hay
Contains(hay, needle) ==
    \E i \in 1..(Len(hay) - Len(needle) + 1) :
        SubSeq(hay, i, i + Len(needle) - 1) = needle

\* s.endswith(suffix)
EndsWith(cs, suffix) ==
    /\ Len(cs) >= Len(suffix)
    /\ SubSeq(cs, Len(cs) - Len(suffix) + 1, Len(cs)) = suffix

(***************************************************************************)
(* Transcript Filter: the three gates of _transcribe_and_respond.          *)
(***************************************************************************)
noise_words ==
    { <<"y", "o", "u">>,
      <<"u", "m">>,
      <<"u", "h">>,
      <<"a", "h">>,
      <<"h", "e", "l", "l", "o">>,
      <<"h", "i">>,
      <<"h", "e", "y">>,
      <<"y", "o">>,
      <<"y", "e", "s">>,
      <<"n", "o">> }

question_words ==
    { <<"w", "h", "a", "t">>,
      <<"w", "h", "e", "n">>,
      <<"w", "h", "e", "r", "e">>,
      <<"w", "h", "o">>,
      <<"h", "o", "w">>,
      <<"c", "a", "n">>,
      <<"d", "o">>,
      <<"d", "o", "e", "s">>,
      <<"i", "s">>,
      <<"a", "r", "e">>,
      <<"w", "i", "l", "l">>,
      <<"w", "o", "u", "l", "d">>,
      <<"c", "o", "u", "l", "d">>,
      <<"s", "h", "o", "u", "l", "d">>,
      <<"p", "r", "i", "c", "e">>,
      <<"c", "o", "s", "t">>,
      <<"b", "o", "o", "k">>,
      <<"a", "p", "p", "o", "i", "n", "t", "m", "e", "n", "t">>,
      <<"h", "o", "u", "r", "s">>,
      <<"w", "a", "l", "k">>,
      <<"s", "e", "r", "v", "i", "c", "e">>,
      <<"h", "a", "i", "r">>,
      <<"c", "o", "l", "o", "r">>,
      <<"c", "u", "t">>,
      <<"a", "v", "a", "i", "l", "a", "b", "l", "e">>,
      <<"a", "v", "a", "i", "l", "a", "b", "i", "l", "i", "t", "y">>,
      <<"s", "c", "h", "e", "d", "u", "l", "e">>,
      <<"s", "a", "r", "a">>,
      <<"s", "a", "r", "a", "h">>,
      <<"s", "t", "y", "l", "i", "s", "t">>,
      <<"m", "u", "c", "h">>,
      <<"m", "a", "n", "y">>,
      <<"t", "e", "l", "l">>,
      <<"n", "e", "e", "d">>,
      <<"w", "a", "n", "t">> }

\* The gate that stops the stripped transcript text, or "pass".
FilterVerdict(text) ==
    LET cs    == Chars[text]
        words == WordSet(Lower(cs))
    IN  IF cs = <<>> THEN "empty"
        ELSE IF Len(cs) < 3 THEN "too_short"
        ELSE IF StripSet(Lower(cs), {".", ",", "!", "?"}) \in noise_words THEN "noise_word"
        ELSE IF ~ (\/ words \cap question_words # {}
                   \/ EndsWith(cs, <<"?">>)
                   \/ Cardinality(words) >= 3) THEN "not_a_question"
        ELSE "pass"

\* The pairs <<text, verdict>> over the texts of the universe.
FilterTable == {<<t, FilterVerdict(t)>> : t \in Texts}

(***************************************************************************)
(* difflib.SequenceMatcher(None, a, b).ratio(), without junk (the texts    *)
(* are shorter than the 200 characters that switch autojunk on).           *)
(***************************************************************************)
\* The length of the common run of a from i and b from j, within ahi, bhi.
RECURSIVE CommonLen(_, _, _, _, _, _)
CommonLen(a, b, i, j, ahi, bhi) ==
    IF i > ahi \/ j > bhi \/ a[i] # b[j] THEN 0
    ELSE 1 + CommonLen(a, b, i + 1, j + 1, ahi, bhi)

\* find_longest_match over a[alo..ahi], b[blo..bhi] (1-based, inclusive):
\* the longest common block, the earliest in a, then the earliest in b.
FindLongestMatch(a, b, alo, ahi, blo, bhi) ==
    LET pairs == (alo..ahi) \X (blo..bhi)
        size(p) == CommonLen(a, b, p[1], p[2], ahi, bhi)
        sized == {<<p[1], p[2], size(p)>> : p \in pairs}
        best  == CHOOSE m \in sized : \A n \in sized :
                    \/ m[3] > n[3]
                    \/ m[3] = n[3] /\ m[1] < n[1]
                    \/ m[3] = n[3] /\ m[1] = n[1] /\ m[2] <= n[2]
    IN  IF pairs = {} THEN <<alo, blo, 0>> ELSE best

\* The total size of get_matching_blocks over a[alo..ahi], b[blo..bhi].
RECURSIVE MatchingSize(_, _, _, _, _, _)
MatchingSize(a, b, alo, ahi, blo, bhi) ==
    LET m == FindLongestMatch(a, b, alo, ahi, blo, bhi)
        i == m[1]
        j == m[2]
        k == m[3]
    IN  IF k = 0 THEN 0
        ELSE k + (IF alo < i /\ blo < j
                  THEN MatchingSize(a, b, alo, i - 1, blo, j - 1) ELSE 0)
               + (IF i + k <= ahi /\ j + k <= bhi
                  THEN MatchingSize(a, b, i + k, ahi, j + k, bhi) ELSE 0)

\* ratio() > 0.8, that is 2*M/T > 8/10 (ratio() is 1.0 when both are empty).
RatioAbove08(a, b) ==
    IF Len(a) + Len(b) = 0 THEN TRUE
    ELSE 10 * MatchingSize(a, b, 1, Len(a), 1, Len(b)) > 4 * (Len(a) + Len(b))

(***************************************************************************)
(* Knowledge Base Matcher: Database.get_answer.                            *)
(***************************************************************************)
initial_data ==
    << [question |-> "what are your hours", answer |-> "We're open Monday to Friday 9AM-7PM, Saturday 10AM-5PM"],
       [question |-> "when are you open", answer |-> "Our hours are Monday-Friday 9AM-7PM, Saturday 10AM-5PM"],
       [question |-> "where are you located", answer |-> "We're at 123 Beauty Street, Glamour City"],
       [question |-> "what services do you offer", answer |-> "We offer haircuts, coloring, styling, and spa treatments"],
       [question |-> "how much is a haircut", answer |-> "Haircuts start at $45"],
       [question |-> "do you accept walk ins", answer |-> "Yes, we accept walk-ins based on availability"],
       [question |-> "do you take walk ins", answer |-> "Yes, we accept walk-ins based on availability"],
       [question |-> "walk ins", answer |-> "Yes, we accept walk-ins based on stylist availability"],
       [question |-> "how to book appointment", answer |-> "You can book by calling us or through our website"],
       [question |-> "what is your cancellation policy", answer |-> "We require 24 hours notice for cancellations"],
       [question |-> "do you offer hair coloring", answer |-> "Yes, we offer professional hair coloring services"],
       [question |-> "what brands do you use", answer |-> "We use premium brands like Redken and Olaplex"] >>

NoAnswer == "<none>"

\* The normalised query of get_answer.
NormalizeQuery(cs) == CollapseSpaces(StripPunctuation(Strip(Lower(cs))))

\* The normalised stored question of get_answer.
NormalizeStored(cs) == StripPunctuation(Lower(cs))

\* Whether query q hits stored question k in the given tier.
TierHit(tier, q, k) ==
    CASE tier = 1 -> k = q
      [] tier = 2 -> Contains(q, k) \/ Contains(k, q)
      [] tier = 3 -> RatioAbove08(q, k)
      [] tier = 4 -> Cardinality(WordSet(q) \cap WordSet(k)) >= 2

\* The triples <<query, stored question, tier>>, over the texts of the
\* universe, such that the query hits the stored question in the tier.
TierTable ==
    {h : h \in {p \in Texts \X Texts \X (1..4) :
        TierHit(p[3], NormalizeQuery(Chars[p[1]]), NormalizeStored(Chars[p[2]]))}}

\* get_answer, had it tried the four tiers on each row in turn.
get_answer_by_row(kb, question) ==
    LET hits == {i \in 1..Len(kb) :
                    \E tier \in 1..4 : <<question, kb[i].question, tier>> \in TierTable}
        first == CHOOSE i \in hits : \A j \in hits : i <= j
    IN  IF hits # {} THEN kb[first].answer ELSE NoAnswer

\* get_answer over the rows kb, in storage order.
get_answer(kb, question) ==
    LET hits(tier) == {i \in 1..Len(kb) : <<question, kb[i].question, tier>> \in TierTable}
        first(tier) == CHOOSE i \in hits(tier) : \A j \in hits(tier) : i <= j
    IN  IF hits(1) # {} THEN kb[first(1)].answer
        ELSE IF hits(2) # {} THEN kb[first(2)].answer
        ELSE IF hits(3) # {} THEN kb[first(3)].answer
        ELSE IF hits(4) # {} THEN kb[first(4)].answer
        ELSE NoAnswer

(***************************************************************************)
(* Reply Resolver: the texts of _get_reply and _get_llm_reply.             *)
(***************************************************************************)
escalation_phrases ==
    << <<"n", "o", "t", " ", "s", "u", "r", "e">>,
       <<"c", "h", "e", "c", "k", " ", "w", "i", "t", "h", " ", "m", "y", " ", "s", "u", "p", "e", "r", "v", "i", "s", "o", "r">>,
       <<"c", "h", "e", "c", "k", " ", "w", "i", "t", "h", " ", "t", "h", "e", " ", "s", "u", "p", "e", "r", "v", "i", "s", "o", "r">>,
       <<"l", "e", "t", " ", "m", "e", " ", "c", "h", "e", "c", "k">>,
       <<"i", " ", "d", "o", "n", "'", "t", " ", "k", "n", "o", "w">>,
       <<"u", "n", "s", "u", "r", "e">> >>

blocked_fragments ==
    << <<"4", "0">>,
       <<"f", "r", "e", "e">>,
       <<"s", "u", "n", "d", "a", "y", " ", "o", "p", "e", "n">>,
       <<"c", "l", "o", "s", "e", "d", " ", "m", "o", "n", "d", "a", "y">> >>

\* any(phrase in reply.lower() for phrase in phrases)
AnyPhraseIn(phrases, reply) ==
    \E i \in 1..Len(phrases) : Contains(Lower(Chars[reply]), phrases[i])

\* The texts of the universe that hold an escalation phrase, and those that
\* hold a blocked fragment.
EscalationTable == {h : h \in {t \in Texts : AnyPhraseIn(escalation_phrases, t)}}

BlockedTable == {h : h \in {t \in Texts : AnyPhraseIn(blocked_fragments, t)}}

\* The pairs <<text, text.strip()>> over the texts of the universe.
StripTable == {<<t, Str(Strip(Chars[t]))>> : t \in Texts}

\* text.strip()
Stripped(text) == (CHOOSE p \in StripTable : p[1] = text)[2]

needs_escalation(llm_reply) == llm_reply \in EscalationTable

\* The hand-off phrase returned when the generative reply asks to escalate.
HandOffEscalation ==
    "That's a great question! Let me check with my supervisor and get back to you shortly. Is there anything else I can help you with?"

\* The hand-off phrase returned when the generative call failed.
HandOffFailure ==
    "That's a great question! Let me check with my supervisor and get back to you shortly."

Greeting == "Hello! Welcome to Glamour Salon. How can I help you today?"

\* An utterance handed to speak: its text is prefix + text; request is the
\* help_requests row whose answer it carries (0 when none; history).
Utterance(prefix, text, request) == [prefix |-> prefix, text |-> text, request |-> request]

\* What the poller speaks for a supervisor answer.
FollowUp(answer, request) == Utterance("Great news! My supervisor says: ", answer, request)

\* No value (None).
None == "<None>"

\* The phone number of a call whose metadata names none.
DefaultPhone == "5551234567"

(***************************************************************************)
(* Inputs and bounds.                                                      *)
(***************************************************************************)
\* The agent processes, one per call, and the person calling in each.
Sessions == {1, 2}

CallerOf(s) == IF s = 1 THEN "5550000001" ELSE "5550000002"

\* What the transcription service returns (before strip()).
Transcripts == {"", "Um.", "What are your hours?", "Is parking available?"}

\* A wider choice of transcripts, for the runs that follow the filter and the
\* knowledge base lookup.
Utterances ==
    {"Um.", "Yes.", "Hi!", "Ok.", "Ok?", "Bye bye bye.", "Okay then.",
     "Your cancellation policy.", "Walk ins?", "Do you?", "When are your open?",
     "Can I book an appointment?", "When are you open?", "What are your hours?",
     "what are your hours", "when are you open", "???", "Cat?",
     "Is parking available?"}

\* What the generative service returns (before strip()).
LlmReplies ==
    {"Yes, it is.", "Yes, it is. ", "I'm Not Sure, let me check.", "Parking is free."}

\* What the supervisor types into the answer form.
Answers == {"Yes, behind the salon."}

\* What supervisors type when a request is answered more than once.
Rewordings == Answers \cup {"No, on the street."}

\* Durations (ms of 16 kHz mono audio) of the frames the transport delivers.
FrameDurations == {4000}

\* Shorter frames, for the runs that follow the endpoint detector alone.
ShortFrames == {500, 1000}

\* Samples of the longest frame whose resampling is followed sample by sample.
MaxSamples == 12

\* The sample rates of those frames.
SampleRates == {8000, 24000, 32000, 48000}

\* Calls of get_or_create_customer one session makes while they are followed
\* statement by statement.
MaxLookups == 2

\* _stream_audio tasks of one call alive at once while they are followed byte
\* by byte.
MaxTasks == 2

\* Bytes of the longest PCM payload whose frames are followed byte by byte.
MaxPcm == 3841

\* Rows of help_requests.
MaxRequests == 1

\* Frames of one call synthesized and not yet captured by its audio source.
MaxBacklog == 1

\* Endpoint Detector thresholds, in ms.
min_dur == 1500

max_dur == 8000

min_silence == 800

(***************************************************************************)
(* State.                                                                  *)
(***************************************************************************)
VARIABLES
    customers,       \* the customers table: the phone number of each row (its id is its index)
    help_requests,   \* the help_requests table: each row (its id is its index)
    asked_by,        \* per help_requests row, the person whose call created it (history)
    kb_added,        \* the knowledge_base rows added after the seed rows, without the
                     \* later copies of a row
    call,            \* per session, the position of _run_call
    current_phone,   \* per session, self.current_phone
    is_processing,   \* per session, self.is_processing
    detector,        \* per session, the locals of _capture_and_transcribe
    cycles,          \* per session, the _transcribe_and_respond tasks alive
    poller,          \* per session, the poll() task
    streams,         \* per session, the _stream_audio tasks alive
    heard            \* per session, the help requests whose follow-up reached the outbound
                     \* audio source (history)

vars ==
    <<customers, help_requests, asked_by, kb_added, call, current_phone, is_processing,
      detector, cycles, poller, streams, heard>>

store == <<customers, help_requests, asked_by, kb_added>>

\* The rows of knowledge_base: the seed rows, then the rows added since.  Each
\* later Database() appends the seed rows again, and answering a request
\* again with the same answer appends its row again; such a copy never
\* decides get_answer, because the first copy is stored before it.
knowledge_base == initial_data \o kb_added

IdleDetector ==
    [buffer |-> 0, speech_started |-> FALSE, silence_dur |-> 0, speech |-> 0, quiet |-> 0,
     lead |-> 0]

NoPoller == [pc |-> "off", todo |-> <<>>]

Init ==
    /\ customers = <<>>
    /\ help_requests = <<>>
    /\ asked_by = <<>>
    /\ kb_added = <<>>
    /\ call = [s \in Sessions |-> "idle"]
    /\ current_phone = [s \in Sessions |-> None]
    /\ is_processing = [s \in Sessions |-> FALSE]
    /\ detector = [s \in Sessions |-> IdleDetector]
    /\ cycles = [s \in Sessions |-> <<>>]
    /\ poller = [s \in Sessions |-> NoPoller]
    /\ streams = [s \in Sessions |-> <<>>]
    /\ heard = [s \in Sessions |-> {}]

(***************************************************************************)
(* The persisted store: Database.                                          *)
(***************************************************************************)
\* The id of the customers row with this phone number, 0 when there is none.
CustomerId(rows, phone) ==
    IF \E i \in 1..Len(rows) : rows[i] = phone
    THEN CHOOSE i \in 1..Len(rows) : rows[i] = phone
    ELSE 0

\* get_or_create_customer: the customers table afterwards.
get_or_create_customer(rows, phone) ==
    IF CustomerId(rows, phone) # 0 THEN rows ELSE Append(rows, phone)

\* create_help_request, had it run its INSERT twice.
create_help_request_twice(rows, question, caller_id) ==
    LET row == [question |-> question, caller_id |-> caller_id,
                status |-> "pending", supervisor_answer |-> None]
    IN  Append(Append(rows, row), row)

\* create_help_request: the help_requests table afterwards.
create_help_request(rows, question, caller_id) ==
    Append(rows, [question |-> question, caller_id |-> caller_id,
                  status |-> "pending", supervisor_answer |-> None])

\* resolve_request: the help_requests table afterwards.
resolve_request(rows, request_id, answer) ==
    [i \in 1..Len(rows) |->
        IF i = request_id
        THEN [rows[i] EXCEPT !.status = "resolved", !.supervisor_answer = answer]
        ELSE rows[i]]

\* The poller's UPDATE help_requests SET status = 'delivered' WHERE id = ?.
mark_delivered(rows, request_id) ==
    [i \in 1..Len(rows) |->
        IF i = request_id THEN [rows[i] EXCEPT !.status = "delivered"] ELSE rows[i]]

\* add_knowledge: the added knowledge_base rows afterwards.
add_knowledge(rows, question, answer) ==
    Append(rows, [question |-> Str(Lower(Chars[question])), answer |-> answer])

\* The rows without the later copies of a row.
RECURSIVE WithoutCopies(_)
WithoutCopies(rows) ==
    IF rows = <<>> THEN <<>>
    ELSE LET front == WithoutCopies(SubSeq(rows, 1, Len(rows) - 1))
             last  == rows[Len(rows)]
         IN  IF \E i \in 1..Len(front) : front[i] = last THEN front
             ELSE Append(front, last)

\* get_all_requests: the rows with their ids, newest first.
get_all_requests(rows) ==
    [i \in 1..Len(rows) |->
        [id |-> Len(rows) + 1 - i,
         caller_id |-> rows[Len(rows) + 1 - i].caller_id,
         status |-> rows[Len(rows) + 1 - i].status,
         supervisor_answer |-> rows[Len(rows) + 1 - i].supervisor_answer]]

\* What the poller keeps of a row it will go over.
Kept(row) ==
    [id |-> row.id, caller_id |-> row.caller_id, supervisor_answer |-> row.supervisor_answer]

\* The sequence seq without its i-th element.
RemoveAt(seq, i) == SubSeq(seq, 1, i - 1) \o SubSeq(seq, i + 1, Len(seq))

(***************************************************************************)
(* Synthesizer & Streamer: speak and _stream_audio.                        *)
(***************************************************************************)
\* The outcomes of the speech-synthesis request followed by the decoding:
\* the number of 1920-byte frames of the PCM, or 0 when speak gives up (a
\* status other than 200, an empty payload, an exception).
TtsOutcomes == 0..MaxBacklog

\* The frames these tasks have yet to hand to the audio source.
RECURSIVE Backlog(_)
Backlog(tasks) == IF tasks = <<>> THEN 0 ELSE Head(tasks).left + Backlog(Tail(tasks))

\* Whether the bound on the backlog admits a PCM of that many frames.
Admits(tasks, frames) == Backlog(tasks) + frames <= MaxBacklog

\* The tasks alive are kept in a fixed order, which of them is created first
\* having no effect: the event loop runs any of them next.
TaskBefore(t, u) ==
    \/ t.request < u.request
    \/ t.request = u.request /\ t.left <= u.left

RECURSIVE WithTask(_, _)
WithTask(tasks, t) ==
    IF tasks = <<>> THEN <<t>>
    ELSE IF TaskBefore(t, Head(tasks)) THEN <<t>> \o tasks
    ELSE <<Head(tasks)>> \o WithTask(Tail(tasks), t)

\* The end of speak, had it spoken a one-frame fallback when the synthesis
\* gives no audio.
SpeakEndWithFallback(tasks, utterance, frames) ==
    WithTask(tasks, [left |-> IF frames = 0 THEN 1 ELSE frames,
                     request |-> utterance.request])

\* The end of speak: on success it creates the _stream_audio task, which
\* holds the PCM (its frames left) and no longer the text.
SpeakEnd(tasks, utterance, frames) ==
    IF frames = 0 THEN tasks
    ELSE WithTask(tasks, [left |-> frames, request |-> utterance.request])

\* _stream_audio captures its next frame.
StreamFrame(s, i) ==
    /\ i \in 1..Len(streams[s])
    /\ heard' = [heard EXCEPT ![s] = @ \cup ({streams[s][i].request} \ {0})]
    /\ streams' = [streams EXCEPT ![s] =
            IF @[i].left = 1 THEN RemoveAt(@, i)
            ELSE WithTask(RemoveAt(@, i), [@[i] EXCEPT !.left = @ - 1])]
    /\ UNCHANGED <<store, call, current_phone, is_processing, detector,
                   cycles, poller>>

\* capture_frame raises once the call has ended: _stream_audio logs and ends.
StreamError(s, i) ==
    /\ i \in 1..Len(streams[s])
    /\ call[s] = "ended"
    /\ streams' = [streams EXCEPT ![s] = RemoveAt(@, i)]
    /\ UNCHANGED <<store, call, current_phone, is_processing, detector,
                   cycles, poller, heard>>

\* The bytes of a frame: chunk = 1920.
chunk == 1920

\* The frame of the loop iteration at offset i, had it not been padded.
FrameDataUnpadded(pcm, i) ==
    [from |-> i, upto |-> IF i + chunk < pcm THEN i + chunk ELSE pcm, zeros |-> 0]

\* The frame of the loop iteration at offset i of a payload of pcm bytes: the
\* slice pcm[i:i+chunk], given by its offsets, and the zero bytes added to it.
FrameData(pcm, i) ==
    LET upto == IF i + chunk < pcm THEN i + chunk ELSE pcm
        len  == upto - i
    IN  [from |-> i, upto |-> upto, zeros |-> IF len < chunk THEN chunk - len ELSE 0]

\* A _stream_audio task followed byte by byte: its payload's length, the loop
\* variable i and the frames it has handed to the audio source (history).
PcmTask(pcm) == [pcm |-> pcm, at |-> 0, sent |-> <<>>]

\* One iteration of the loop of _stream_audio task i of session s, up to its
\* await of capture_frame.
CaptureFrame(s, i) ==
    /\ i \in 1..Len(streams[s])
    /\ streams[s][i].at < streams[s][i].pcm
    /\ streams' = [streams EXCEPT ![s][i] =
            [@ EXCEPT !.at = @ + chunk,
                      !.sent = Append(@, FrameData(streams[s][i].pcm, streams[s][i].at))]]
    /\ UNCHANGED <<store, call, current_phone, is_processing, detector,
                   cycles, poller, heard>>

\* The loop of _stream_audio task i of session s is over and the task returns.
StreamReturns(s, i) ==
    /\ i \in 1..Len(streams[s])
    /\ streams[s][i].at >= streams[s][i].pcm
    /\ streams' = [streams EXCEPT ![s] = RemoveAt(@, i)]
    /\ UNCHANGED <<store, call, current_phone, is_processing, detector,
                   cycles, poller, heard>>

(***************************************************************************)
(* The call: _run_call.                                                    *)
(***************************************************************************)
\* metadata.get("phone_number", "5551234567")
PhoneFromMetadata(metadata) == IF metadata = None THEN DefaultPhone ELSE metadata

\* The job metadata a call of session s may carry: none, or the caller's number.
MetadataOf(s) == {None, CallerOf(s)}

\* The call is accepted: the metadata is parsed, the participant has joined,
\* the track is published, and speak(greeting) awaits the synthesis.
StartCall(s, metadata) ==
    /\ call[s] = "idle"
    /\ call' = [call EXCEPT ![s] = "greeting"]
    /\ current_phone' = [current_phone EXCEPT ![s] = PhoneFromMetadata(metadata)]
    /\ UNCHANGED <<store, is_processing, detector, cycles, poller,
                   streams, heard>>

\* The greeting's synthesis returns; the audio is subscribed, the poller is
\* started and the call is served.
GreetingSpoken(s, frames) ==
    /\ call[s] = "greeting"
    /\ Admits(streams[s], frames)
    /\ call' = [call EXCEPT ![s] = "connected"]
    /\ streams' = [streams EXCEPT ![s] = SpeakEnd(@, Utterance("", Greeting, 0), frames)]
    /\ poller' = [poller EXCEPT ![s] = [pc |-> "sleep", todo |-> <<>>]]
    /\ UNCHANGED <<store, current_phone, is_processing, detector, cycles,
                   heard>>

\* handle_call, had it let the exception of _run_call end the handler.
AfterFailureReturns == "ended"

\* Where handle_call is after _run_call raised: in its loop of sleeps.
AfterFailure == "trapped"

\* _run_call raises: at ctx.connect, before anything is assigned, or after the
\* greeting's speak has returned, while subscribing to the caller's audio
\* (no handler is registered and the poller is not started).  handle_call logs
\* the exception and sleeps for ever.
RunCallFails(s, frames) ==
    /\ \/ /\ call[s] = "idle"
          /\ UNCHANGED streams
       \/ /\ call[s] = "greeting"
          /\ Admits(streams[s], frames)
          /\ streams' = [streams EXCEPT ![s] = SpeakEnd(@, Utterance("", Greeting, 0), frames)]
    /\ call' = [call EXCEPT ![s] = AfterFailure]
    /\ UNCHANGED <<store, current_phone, is_processing, detector, cycles,
                   poller, heard>>

\* The room disconnects: the audio stream ends and _run_call returns.  No task
\* is cancelled.
EndCall(s) ==
    /\ call[s] = "connected"
    /\ call' = [call EXCEPT ![s] = "ended"]
    /\ UNCHANGED <<store, current_phone, is_processing, detector, cycles,
                   poller, streams, heard>>

(***************************************************************************)
(* Endpoint Detector and Utterance Dispatcher: _capture_and_transcribe.    *)
(***************************************************************************)
\* The rate the detector works at.
TargetRate == 16000

\* new_len = int(len(samples) * (16000 / rate)); the float product has the
\* integer part of the exact quotient for the lengths followed here.
NewLen(len, rate) == (len * TargetRate) \div rate

\* np.linspace(0, len - 1, new_len, dtype=int): for each output sample the
\* index of the input sample it copies.  The positions are spread evenly from
\* 0 to len - 1, the last being len - 1 itself, and cut to integers.
Indices(len, rate) ==
    LET new_len == NewLen(len, rate)
    IN  [j \in 1..new_len |->
            IF new_len = 1 THEN 0
            ELSE IF j = new_len THEN len - 1
            ELSE ((j - 1) * (len - 1)) \div (new_len - 1)]

\* A frame of len samples at the given rate, taken from the stream and not
\* yet resampled.
IncomingFrame(len, rate) == [len |-> len, rate |-> rate, indices |-> <<>>, resampled |-> FALSE]

\* samples = samples[indices], for a frame whose rate is not 16000.
ResampleFrame(s) ==
    /\ ~ detector[s].resampled
    /\ detector[s].rate # TargetRate
    /\ detector' = [detector EXCEPT ![s] =
            [@ EXCEPT !.indices = Indices(detector[s].len, detector[s].rate),
                      !.resampled = TRUE]]
    /\ UNCHANGED <<store, call, current_phone, is_processing, cycles, poller,
                   streams, heard>>

\* The dispatch, had it left the flag as it was.
DispatchFlagUnset == FALSE

\* The value the dispatch assigns to is_processing.
DispatchFlag == TRUE

\* A new _transcribe_and_respond task; base is the number of help_requests
\* rows at its dispatch (history).
NewCycle(rows) ==
    [pc |-> "transcribe", text |-> None, llm |-> None, reply |-> None,
     outcome |-> "-", db |-> "-", base |-> Len(rows)]

\* The detector after the frame is buffered and classified. speech, quiet and
\* lead describe the buffered audio (history): the ms of speech it holds, the
\* ms of silence after its last speech frame and the ms of silence before its
\* first speech frame.
Buffered(d, ms, is_speech) ==
    [buffer |-> d.buffer + ms,
     speech_started |-> d.speech_started \/ is_speech,
     silence_dur |-> IF is_speech THEN 0
                     ELSE IF d.speech_started THEN d.silence_dur + ms
                     ELSE d.silence_dur,
     speech |-> IF is_speech THEN d.speech + ms ELSE d.speech,
     quiet |-> IF is_speech \/ d.speech = 0 THEN 0 ELSE d.quiet + ms,
     lead |-> IF is_speech \/ d.speech > 0 THEN d.lead ELSE d.lead + ms]

\* buffer.clear() and speech_started = False; silence_dur keeps its value.
Cleared(d) ==
    [d EXCEPT !.buffer = 0, !.speech_started = FALSE, !.speech = 0, !.quiet = 0,
              !.lead = 0]

\* The overflow test, had it given way to a complete utterance.
OverflowUnlessComplete(d) ==
    /\ d.buffer > max_dur
    /\ ~ (d.speech_started /\ d.buffer >= min_dur /\ d.silence_dur >= min_silence)

\* The buffered audio exceeds the ceiling.
Overflow(d) == d.buffer > max_dur

\* The completion test, had it measured the speech in the buffer.
CompleteOnSpeech(d) ==
    d.speech_started /\ d.speech >= min_dur /\ d.silence_dur >= min_silence

\* The buffered audio is a complete utterance.
Complete(d) == d.speech_started /\ d.buffer >= min_dur /\ d.silence_dur >= min_silence

\* The frame step, had it buffered the frames that arrive during a reply cycle.
FrameBufferedInFlight(s, ms, is_speech) ==
    /\ call[s] = "connected"
    /\ LET d == Buffered(detector[s], ms, is_speech)
       IN  IF is_processing[s]
           THEN /\ detector' = [detector EXCEPT ![s] = d]
                /\ UNCHANGED <<is_processing, cycles>>
           ELSE IF Overflow(d)
           THEN /\ detector' = [detector EXCEPT ![s] = Cleared(d)]
                /\ UNCHANGED <<is_processing, cycles>>
           ELSE IF Complete(d) /\ ~ is_processing[s]
           THEN /\ is_processing' = [is_processing EXCEPT ![s] = DispatchFlag]
                /\ detector' = [detector EXCEPT ![s] = Cleared(d)]
                /\ cycles' = [cycles EXCEPT ![s] = Append(@, NewCycle(help_requests))]
           ELSE /\ detector' = [detector EXCEPT ![s] = d]
                /\ UNCHANGED <<is_processing, cycles>>
    /\ UNCHANGED <<store, call, current_phone, poller, streams, heard>>

\* One frame of the caller's audio, ms long, is taken from the stream.
Frame(s, ms, is_speech) ==
    /\ call[s] = "connected"
    /\ LET d == Buffered(detector[s], ms, is_speech)
       IN  IF is_processing[s]
           THEN UNCHANGED <<detector, is_processing, cycles>>
           ELSE IF Overflow(d)
           THEN /\ detector' = [detector EXCEPT ![s] = Cleared(d)]
                /\ UNCHANGED <<is_processing, cycles>>
           ELSE IF Complete(d) /\ ~ is_processing[s]
           THEN /\ is_processing' = [is_processing EXCEPT ![s] = DispatchFlag]
                /\ detector' = [detector EXCEPT ![s] = Cleared(d)]
                /\ cycles' = [cycles EXCEPT ![s] = Append(@, NewCycle(help_requests))]
           ELSE /\ detector' = [detector EXCEPT ![s] = d]
                /\ UNCHANGED <<is_processing, cycles>>
    /\ UNCHANGED <<store, call, current_phone, poller, streams, heard>>

(***************************************************************************)
(* The reply cycle: _transcribe_and_respond, _get_reply, _get_llm_reply.   *)
(***************************************************************************)
\* The transcription request raised.
Failed == "<exception>"

\* The outcomes of a store operation of the escalation: both succeed, the
\* customer lookup raises, or the help request write raises.
DbOutcomes == {"ok", "fail_customer", "fail_request"}

\* _get_llm_reply without its list of blocked fragments.
get_llm_reply_unblocked(result) ==
    IF result = Failed THEN None ELSE Stripped(result)

\* What _get_llm_reply returns for the service's result: None when the request
\* raised or the stripped reply holds a blocked fragment.
get_llm_reply(result) ==
    IF result = Failed THEN None
    ELSE LET reply == Stripped(result)
         IN  IF reply \in BlockedTable THEN None ELSE reply

\* The customers table after the escalation's store operations.
EscalationCustomers(rows, phone, db) ==
    IF db = "fail_customer" THEN rows ELSE get_or_create_customer(rows, phone)

\* The escalation's store operations, had a help request write that raises
\* left its row behind.
EscalationRequestsKept(rows, custs, question, phone, db) ==
    IF db \in {"ok", "fail_request"}
    THEN create_help_request(rows, question,
                             CustomerId(get_or_create_customer(custs, phone), phone))
    ELSE rows

\* The help_requests table after the escalation's store operations.
EscalationRequests(rows, custs, question, phone, db) ==
    IF db = "ok"
    THEN create_help_request(rows, question,
                             CustomerId(get_or_create_customer(custs, phone), phone))
    ELSE rows

\* Whether _get_reply escalates on what _get_llm_reply returned.
Escalates(llm_reply) ==
    \/ llm_reply = None
    \/ llm_reply = ""
    \/ needs_escalation(llm_reply)

\* _get_reply, had it passed the generative reply on whatever it says.
ReplyOnMissUnchecked(llm_reply) ==
    IF llm_reply = None \/ llm_reply = "" THEN HandOffFailure ELSE llm_reply

\* What _get_reply returns on a knowledge-base miss.
ReplyOnMiss(llm_reply) ==
    IF llm_reply = None \/ llm_reply = "" THEN HandOffFailure
    ELSE IF needs_escalation(llm_reply) THEN HandOffEscalation
    ELSE llm_reply

\* How the cycle is recorded to have resolved a knowledge-base miss.
OutcomeOnMiss(llm_reply) ==
    IF llm_reply = None \/ llm_reply = "" THEN "llm_failed"
    ELSE IF needs_escalation(llm_reply) THEN "escalated"
    ELSE "llm_reply"

\* The transcription step with the knowledge base lookup left out: every
\* transcript that passes the filter goes on to the generative request.
TranscriptionReturnsNoLookup(s, i, result) ==
    /\ i \in 1..Len(cycles[s])
    /\ cycles[s][i].pc = "transcribe"
    /\ LET c       == cycles[s][i]
           text    == Stripped(result)
           verdict == (CHOOSE p \in FilterTable : p[1] = text)[2]
       IN  cycles' = [cycles EXCEPT ![s][i] =
               IF result = Failed
               THEN [c EXCEPT !.pc = "cooldown", !.outcome = "stt_error"]
               ELSE IF verdict # "pass"
               THEN [c EXCEPT !.pc = "cooldown", !.outcome = verdict]
               ELSE [c EXCEPT !.pc = "llm", !.text = text]]
    /\ UNCHANGED <<store, call, current_phone, is_processing, detector,
                   poller, streams, heard>>

\* The transcription returns to cycle i of session s: the transcript is
\* filtered and, when it passes, looked up in the knowledge base.
TranscriptionReturns(s, i, result) ==
    /\ i \in 1..Len(cycles[s])
    /\ cycles[s][i].pc = "transcribe"
    /\ LET c       == cycles[s][i]
           text    == Stripped(result)
           verdict == (CHOOSE p \in FilterTable : p[1] = text)[2]
           answer  == get_answer(knowledge_base, text)
       IN  cycles' = [cycles EXCEPT ![s][i] =
               IF result = Failed
               THEN [c EXCEPT !.pc = "cooldown", !.outcome = "stt_error"]
               ELSE IF verdict # "pass"
               THEN [c EXCEPT !.pc = "cooldown", !.outcome = verdict]
               ELSE IF answer # NoAnswer
               THEN [c EXCEPT !.pc = "tts", !.text = text, !.reply = answer,
                              !.outcome = "kb_hit"]
               ELSE [c EXCEPT !.pc = "llm", !.text = text]]
    /\ UNCHANGED <<store, call, current_phone, is_processing, detector,
                   poller, streams, heard>>

\* The generative request returns to cycle i of session s: _get_reply
\* escalates or passes the reply on, and speak(reply) awaits the synthesis.
GenerationReturns(s, i, result, db) ==
    /\ i \in 1..Len(cycles[s])
    /\ cycles[s][i].pc = "llm"
    /\ LET c         == cycles[s][i]
           llm_reply == get_llm_reply(result)
           phone     == current_phone[s]
       IN  IF Escalates(llm_reply)
           THEN /\ db \in DbOutcomes
                /\ db = "ok" => Len(help_requests) < MaxRequests
                /\ customers' = EscalationCustomers(customers, phone, db)
                /\ help_requests' =
                       EscalationRequests(help_requests, customers, c.text, phone, db)
                /\ asked_by' = IF db = "ok" THEN Append(asked_by, CallerOf(s)) ELSE asked_by
                /\ cycles' = [cycles EXCEPT ![s][i] =
                       [c EXCEPT !.pc = "tts", !.llm = llm_reply, !.db = db,
                                 !.reply = ReplyOnMiss(llm_reply),
                                 !.outcome = OutcomeOnMiss(llm_reply)]]
           ELSE /\ db = "-"
                /\ cycles' = [cycles EXCEPT ![s][i] =
                       [c EXCEPT !.pc = "tts", !.llm = llm_reply,
                                 !.reply = ReplyOnMiss(llm_reply),
                                 !.outcome = OutcomeOnMiss(llm_reply)]]
                /\ UNCHANGED <<customers, help_requests, asked_by>>
    /\ UNCHANGED <<kb_added, call, current_phone, is_processing, detector,
                   poller, streams, heard>>

\* The synthesis of the reply returns to cycle i of session s; the cycle
\* goes on to its cooldown, where it no longer reads its locals.
ReplySpoken(s, i, frames) ==
    /\ i \in 1..Len(cycles[s])
    /\ cycles[s][i].pc = "tts"
    /\ Admits(streams[s], frames)
    /\ streams' = [streams EXCEPT ![s] =
            SpeakEnd(@, Utterance("", cycles[s][i].reply, 0), frames)]
    /\ cycles' = [cycles EXCEPT ![s][i] =
            [@ EXCEPT !.pc = "cooldown", !.text = None, !.llm = None, !.reply = None,
                      !.db = "-"]]
    /\ UNCHANGED <<store, call, current_phone, is_processing, detector,
                   poller, heard>>

\* The finally clause, had it left the flag set.
ClearedFlagStuck == TRUE

\* The value the finally clause assigns to is_processing.
ClearedFlag == FALSE

\* The finally clause of cycle i of session s, after its sleep.
CycleEnds(s, i) ==
    /\ i \in 1..Len(cycles[s])
    /\ cycles[s][i].pc = "cooldown"
    /\ is_processing' = [is_processing EXCEPT ![s] = ClearedFlag]
    /\ cycles' = [cycles EXCEPT ![s] = RemoveAt(@, i)]
    /\ UNCHANGED <<store, call, current_phone, detector, poller, streams,
                   heard>>

(***************************************************************************)
(* Supervisor Bridge: start_supervisor_callback_poller.                    *)
(***************************************************************************)
\* The rows of the snapshot that pass the poller's test on the row itself.
RECURSIVE Candidates(_)
Candidates(rows) ==
    IF rows = <<>> THEN <<>>
    ELSE (IF /\ Head(rows).status = "resolved"
             /\ Head(rows).supervisor_answer \notin {None, ""}
             /\ Head(rows).caller_id # 0
          THEN <<Kept(Head(rows))>> ELSE <<>>) \o Candidates(Tail(rows))

\* Whether the snapshot row belongs to the customer of the call.
IsForCaller(row, customer_id) == row.caller_id = customer_id

\* The rows from the first one for the customer on (empty when none is).
RECURSIVE FromFirstMatch(_, _)
FromFirstMatch(rows, customer_id) ==
    IF rows = <<>> THEN <<>>
    ELSE IF IsForCaller(Head(rows), customer_id) THEN rows
    ELSE FromFirstMatch(Tail(rows), customer_id)

\* The customers table after the poller's loop went over these candidates.
PollCustomers(custs, rows, phone) ==
    IF rows = <<>> THEN custs ELSE get_or_create_customer(custs, phone)

\* The poller's loop goes over these candidates up to its next speak.
PollContinue(s, rows) ==
    LET custs == PollCustomers(customers, rows, current_phone[s])
        rest  == FromFirstMatch(rows, CustomerId(custs, current_phone[s]))
    IN  /\ customers' = custs
        /\ poller' = [poller EXCEPT ![s] =
               [pc |-> IF rest = <<>> THEN "sleep" ELSE "speak", todo |-> rest]]

\* The poller wakes and reads all requests.
PollWakes(s) ==
    /\ poller[s].pc = "sleep"
    /\ PollContinue(s, Candidates(get_all_requests(help_requests)))
    /\ UNCHANGED <<help_requests, asked_by, kb_added, call, current_phone, is_processing,
                   detector, cycles, streams, heard>>

\* The poller's UPDATE, and the rest of its loop; the cycle ends when the
\* UPDATE raises.
PollMark(s, db_ok) ==
    IF db_ok
    THEN /\ help_requests' = mark_delivered(help_requests, Head(poller[s].todo).id)
         /\ PollContinue(s, Tail(poller[s].todo))
    ELSE /\ poller' = [poller EXCEPT ![s] = [pc |-> "sleep", todo |-> <<>>]]
         /\ UNCHANGED <<customers, help_requests>>

\* The synthesis of the follow-up returns: when speak gave up the poller
\* goes straight on to its UPDATE, otherwise it first sleeps in speak.
FollowUpSpoken(s, frames, db_ok) ==
    /\ poller[s].pc = "speak"
    /\ Admits(streams[s], frames)
    /\ LET row == Head(poller[s].todo)
       IN  streams' = [streams EXCEPT ![s] =
               SpeakEnd(@, FollowUp(row.supervisor_answer, row.id), frames)]
    /\ IF frames = 0
       THEN PollMark(s, db_ok)
       ELSE /\ db_ok
            /\ poller' = [poller EXCEPT ![s].pc = "mark"]
            /\ UNCHANGED <<customers, help_requests>>
    /\ UNCHANGED <<asked_by, kb_added, call, current_phone, is_processing, detector, cycles, heard>>

\* The poller marks the request delivered after speak returned.
FollowUpDelivered(s, db_ok) ==
    /\ poller[s].pc = "mark"
    /\ PollMark(s, db_ok)
    /\ UNCHANGED <<asked_by, kb_added, call, current_phone, is_processing, detector, cycles, streams, heard>>

(***************************************************************************)
(* The dashboard's answer endpoints.                                       *)
(***************************************************************************)
\* The store after a non-empty answer is submitted for request_id.
SubmitAnswer(request_id, answer) ==
    /\ answer # ""
    /\ help_requests' = resolve_request(help_requests, request_id, answer)
    /\ kb_added' =
           IF request_id \in 1..Len(help_requests)
           THEN WithoutCopies(
                    add_knowledge(kb_added, help_requests[request_id].question, answer))
           ELSE kb_added
    /\ UNCHANGED <<customers, asked_by, call, current_phone, is_processing, detector, cycles, poller, streams, heard>>

\* POST /api/requests/<request_id>/answer
answer_request(request_id, answer) == SubmitAnswer(request_id, answer)

\* POST /request/<request_id>
request_detail(request_id, answer) == SubmitAnswer(request_id, answer)

(***************************************************************************)
(* The system.                                                             *)
(***************************************************************************)
\* The steps of the calls ss, of which the callers in talkers are heard, when
\* the services and the store answer from the given sets.
NextFor(ss, talkers, transcripts, replies, dbs, tts) ==
    \/ \E s \in ss : \E m \in MetadataOf(s) : StartCall(s, m)
    \/ \E s \in ss, f \in tts : GreetingSpoken(s, f)
    \/ \E s \in ss : EndCall(s)
    \/ \E s \in ss, f \in tts : RunCallFails(s, f)
    \/ \E s \in talkers, ms \in FrameDurations, sp \in BOOLEAN : Frame(s, ms, sp)
    \/ \E s \in ss : \E i \in 1..Len(cycles[s]) : \E r \in transcripts :
           TranscriptionReturns(s, i, r)
    \/ \E s \in ss : \E i \in 1..Len(cycles[s]) : \E r \in replies, db \in dbs \cup {"-"} :
           GenerationReturns(s, i, r, db)
    \/ \E s \in ss : \E i \in 1..Len(cycles[s]) : \E f \in tts : ReplySpoken(s, i, f)
    \/ \E s \in ss : \E i \in 1..Len(cycles[s]) : CycleEnds(s, i)
    \/ \E s \in ss : PollWakes(s)
    \/ \E s \in ss, f \in tts, ok \in BOOLEAN : FollowUpSpoken(s, f, ok)
    \/ \E s \in ss, ok \in BOOLEAN : FollowUpDelivered(s, ok)
    \/ \E s \in ss : \E i \in 1..Len(streams[s]) : StreamFrame(s, i)
    \/ \E s \in ss : \E i \in 1..Len(streams[s]) : StreamError(s, i)
    \/ \E r \in 1..MaxRequests, a \in Answers : answer_request(r, a)
    \/ \E r \in 1..MaxRequests, a \in Answers : request_detail(r, a)

\* One call, with every outcome of the services and of the store.
Next ==
    NextFor({1}, {1}, Transcripts \cup {Failed}, LlmReplies \cup {Failed}, DbOutcomes,
            TtsOutcomes)

Spec == Init /\ [][Next]_vars

\* Two calls at once, of which the first caller asks a question that is not
\* in the knowledge base; the generative service is down, the store and the
\* synthesis answer.
NextCalls ==
    NextFor(Sessions, {1}, {"Is parking available?"}, {Failed}, {"ok"}, TtsOutcomes \ {0})

Calls == Init /\ [][NextCalls]_vars

\* A call is being served and speak has just created the _stream_audio task
\* of a decoded payload of any length up to MaxPcm.
InitStreaming ==
    /\ customers = <<>>
    /\ help_requests = <<>>
    /\ asked_by = <<>>
    /\ kb_added = <<>>
    /\ call = [s \in Sessions |-> IF s = 1 THEN "connected" ELSE "idle"]
    /\ current_phone = [s \in Sessions |-> IF s = 1 THEN DefaultPhone ELSE None]
    /\ is_processing = [s \in Sessions |-> FALSE]
    /\ detector = [s \in Sessions |-> IdleDetector]
    /\ cycles = [s \in Sessions |-> <<>>]
    /\ poller = [s \in Sessions |-> IF s = 1 THEN [pc |-> "sleep", todo |-> <<>>] ELSE NoPoller]
    /\ \E pcm \in 0..MaxPcm :
          streams = [s \in Sessions |-> IF s = 1 THEN <<PcmTask(pcm)>> ELSE <<>>]
    /\ heard = [s \in Sessions |-> {}]

\* The task runs to its end.
NextStreaming ==
    \/ \E i \in 1..Len(streams[1]) : CaptureFrame(1, i)
    \/ \E i \in 1..Len(streams[1]) : StreamReturns(1, i)

Streaming == InitStreaming /\ [][NextStreaming]_vars

\* The lengths of the decoded payloads of a call in which several utterances
\* are spoken: one frame, and the longest payload.
Payloads == {chunk, MaxPcm}

\* The synthesis of the poller's follow-up returns with a payload of pcm
\* bytes: speak creates the _stream_audio task, sleeps and returns, and the
\* poller goes on to its UPDATE.
FollowUpStreams(s, pcm) ==
    /\ poller[s].pc = "speak"
    /\ Len(streams[s]) < MaxTasks
    /\ streams' = [streams EXCEPT ![s] = Append(@, PcmTask(pcm))]
    /\ poller' = [poller EXCEPT ![s].pc = "mark"]
    /\ UNCHANGED <<store, call, current_phone, is_processing, detector, cycles, heard>>

\* A customer whose question of an earlier call has been answered since calls
\* again: the call is connected, the _stream_audio task of the greeting has
\* just been created and the poller has been started.
InitOverlapping ==
    /\ customers = <<CallerOf(1)>>
    /\ \E a \in Answers :
          /\ help_requests = <<[question |-> "Is parking available?", caller_id |-> 1,
                                status |-> "resolved", supervisor_answer |-> a]>>
          /\ kb_added = add_knowledge(<<>>, "Is parking available?", a)
    /\ asked_by = <<CallerOf(1)>>
    /\ call = [s \in Sessions |-> IF s = 1 THEN "connected" ELSE "idle"]
    /\ current_phone = [s \in Sessions |-> IF s = 1 THEN CallerOf(1) ELSE None]
    /\ is_processing = [s \in Sessions |-> FALSE]
    /\ detector = [s \in Sessions |-> IdleDetector]
    /\ cycles = [s \in Sessions |-> <<>>]
    /\ poller = [s \in Sessions |-> IF s = 1 THEN [pc |-> "sleep", todo |-> <<>>] ELSE NoPoller]
    /\ \E pcm \in Payloads :
          streams = [s \in Sessions |-> IF s = 1 THEN <<PcmTask(pcm)>> ELSE <<>>]
    /\ heard = [s \in Sessions |-> {}]

\* The greeting is streamed while the poller runs; the supervisor may answer
\* the request again.
NextOverlapping ==
    \/ \E i \in 1..Len(streams[1]) : CaptureFrame(1, i)
    \/ \E i \in 1..Len(streams[1]) : StreamReturns(1, i)
    \/ PollWakes(1)
    \/ \E pcm \in Payloads : FollowUpStreams(1, pcm)
    \/ \E ok \in BOOLEAN : FollowUpDelivered(1, ok)
    \/ \E a \in Answers : answer_request(1, a)

Overlapping == InitOverlapping /\ [][NextOverlapping]_vars

\* A call is being served and the capture loop has taken a frame of any
\* length up to MaxSamples, at a rate other than 16000, from the stream.
InitResampling ==
    /\ customers = <<>>
    /\ help_requests = <<>>
    /\ asked_by = <<>>
    /\ kb_added = <<>>
    /\ call = [s \in Sessions |-> IF s = 1 THEN "connected" ELSE "idle"]
    /\ current_phone = [s \in Sessions |-> IF s = 1 THEN DefaultPhone ELSE None]
    /\ is_processing = [s \in Sessions |-> FALSE]
    /\ \E len \in 0..MaxSamples, rate \in SampleRates :
          detector = [s \in Sessions |-> IF s = 1 THEN IncomingFrame(len, rate)
                                         ELSE IncomingFrame(0, TargetRate)]
    /\ cycles = [s \in Sessions |-> <<>>]
    /\ poller = [s \in Sessions |-> IF s = 1 THEN [pc |-> "sleep", todo |-> <<>>] ELSE NoPoller]
    /\ streams = [s \in Sessions |-> <<>>]
    /\ heard = [s \in Sessions |-> {}]

NextResampling == ResampleFrame(1)

Resampling == InitResampling /\ [][NextResampling]_vars

\* get_or_create_customer statement by statement.  Every job of the worker
\* has its own Database() and every call of the method its own connection
\* to the one database file; the SELECT runs outside a transaction, so the
\* statements of two sessions interleave, and each statement is atomic.
\* cycles[s] holds the calls session s has made: the statement each is at and
\* the customer id it saw or returned.
CustomerCall(s) ==
    /\ Len(cycles[s]) < MaxLookups
    /\ \A i \in 1..Len(cycles[s]) : cycles[s][i].pc \in {"returned", "raised"}
    /\ cycles' = [cycles EXCEPT ![s] = Append(@, [pc |-> "select", customer |-> 0])]
    /\ UNCHANGED <<store, call, current_phone, is_processing, detector, poller, streams, heard>>

\* SELECT * FROM customers WHERE phone_number = ?
SelectCustomer(s, i) ==
    /\ i \in 1..Len(cycles[s])
    /\ cycles[s][i].pc = "select"
    /\ LET found == CustomerId(customers, current_phone[s])
       IN  cycles' = [cycles EXCEPT ![s][i] =
                         IF found # 0 THEN [pc |-> "returned", customer |-> found]
                         ELSE [pc |-> "insert", customer |-> 0]]
    /\ UNCHANGED <<store, call, current_phone, is_processing, detector, poller, streams, heard>>

\* INSERT INTO customers ..., then the SELECT by id and the commit; a row with
\* the phone number there already fails the UNIQUE constraint, the connection
\* rolls back and the call raises.
InsertCustomer(s, i) ==
    /\ i \in 1..Len(cycles[s])
    /\ cycles[s][i].pc = "insert"
    /\ IF CustomerId(customers, current_phone[s]) # 0
       THEN /\ cycles' = [cycles EXCEPT ![s][i] = [pc |-> "raised", customer |-> 0]]
            /\ UNCHANGED customers
       ELSE /\ customers' = Append(customers, current_phone[s])
            /\ cycles' = [cycles EXCEPT ![s][i] =
                              [pc |-> "returned", customer |-> Len(customers) + 1]]
    /\ UNCHANGED <<help_requests, asked_by, kb_added, call, current_phone, is_processing,
                   detector, poller, streams, heard>>

\* Two calls are connected, each under its caller's number or, its metadata
\* naming none, under the default number.
InitRegistering ==
    /\ customers = <<>>
    /\ help_requests = <<>>
    /\ asked_by = <<>>
    /\ kb_added = <<>>
    /\ call = [s \in Sessions |-> "connected"]
    /\ current_phone \in [Sessions -> {DefaultPhone} \cup {CallerOf(s) : s \in Sessions}]
    /\ \A s \in Sessions : current_phone[s] \in {DefaultPhone, CallerOf(s)}
    /\ is_processing = [s \in Sessions |-> FALSE]
    /\ detector = [s \in Sessions |-> IdleDetector]
    /\ cycles = [s \in Sessions |-> <<>>]
    /\ poller = [s \in Sessions |-> [pc |-> "sleep", todo |-> <<>>]]
    /\ streams = [s \in Sessions |-> <<>>]
    /\ heard = [s \in Sessions |-> {}]

NextRegistering ==
    \/ \E s \in Sessions : CustomerCall(s)
    \/ \E s \in Sessions, i \in 1..MaxLookups : SelectCustomer(s, i)
    \/ \E s \in Sessions, i \in 1..MaxLookups : InsertCustomer(s, i)

Registering == InitRegistering /\ [][NextRegistering]_vars

\* One call in which the caller says any of the utterances; the generative
\* service is down and the store answers.
NextAsking ==
    NextFor({1}, {1}, Utterances, {Failed}, {"ok"}, TtsOutcomes)

Asking == Init /\ [][NextAsking]_vars

\* One call in which the caller's audio arrives in short frames; the greeting
\* is not synthesized and every transcription fails, so that each reply cycle
\* ends without a reply.
NextListening ==
    \/ \E m \in MetadataOf(1) : StartCall(1, m)
    \/ GreetingSpoken(1, 0)
    \/ \E ms \in ShortFrames, sp \in BOOLEAN : Frame(1, ms, sp)
    \/ \E i \in 1..Len(cycles[1]) : TranscriptionReturns(1, i, Failed)
    \/ \E i \in 1..Len(cycles[1]) : CycleEnds(1, i)

Listening == Init /\ [][NextListening]_vars

\* One call in which the caller asks, time and again, a question that is not
\* in the seeded knowledge base; the generative service is down and the store
\* answers, and the request is answered through either endpoint of the
\* dashboard, in one wording or another, any number of times.  Nothing the
\* call says is synthesized.
NextAnswering ==
    \/ \E m \in MetadataOf(1) : StartCall(1, m)
    \/ GreetingSpoken(1, 0)
    \/ \E ms \in FrameDurations, sp \in BOOLEAN : Frame(1, ms, sp)
    \/ \E i \in 1..Len(cycles[1]) : TranscriptionReturns(1, i, "Is parking available?")
    \/ \E i \in 1..Len(cycles[1]) : GenerationReturns(1, i, Failed, "ok")
    \/ \E i \in 1..Len(cycles[1]) : ReplySpoken(1, i, 0)
    \/ \E i \in 1..Len(cycles[1]) : CycleEnds(1, i)
    \/ PollWakes(1)
    \/ \E ok \in BOOLEAN : FollowUpSpoken(1, 0, ok)
    \/ \E r \in 1..MaxRequests, a \in Rewordings : answer_request(r, a)
    \/ \E r \in 1..MaxRequests, a \in Rewordings : request_detail(r, a)

Answering == Init /\ [][NextAnswering]_vars

\* One call whose reply cycles are scheduled: a cycle that can take a step
\* (its request returns or fails, its sleep ends) eventually takes one.
CycleStep(s) ==
    \E i \in 1..Len(cycles[s]) :
        \/ \E r \in Transcripts \cup {Failed} : TranscriptionReturns(s, i, r)
        \/ \E r \in LlmReplies \cup {Failed}, db \in DbOutcomes \cup {"-"} :
               GenerationReturns(s, i, r, db)
        \/ \E f \in TtsOutcomes : ReplySpoken(s, i, f)
        \/ CycleEnds(s, i)

FairSpec == Spec /\ WF_vars(CycleStep(1))

(***************************************************************************)
(* The reply cycle and the processing flag.                                *)
(***************************************************************************)
\* C1: for one call, at most one reply cycle is in flight at any time, and
\* the processing flag is set whenever a cycle is in flight (it is set in the
\* step that dispatches the cycle, which is taken only while it is unset).
C1_AtMostOneCycle ==
    \A s \in Sessions :
        /\ Len(cycles[s]) <= 1
        /\ cycles[s] # <<>> => is_processing[s]

\* A cycle is in flight, awaiting the synthesis of its reply, while the
\* caller's audio keeps arriving.
C1_Witness ==
    \E s \in Sessions :
        /\ call[s] = "connected"
        /\ Len(cycles[s]) = 1
        /\ cycles[s][1].pc = "tts"
        /\ is_processing[s]

\* C2: every dispatched reply cycle eventually clears the processing flag,
\* on every exit path, provided each request returns or fails.
C2_FlagEventuallyCleared ==
    \A s \in Sessions : is_processing[s] ~> ~ is_processing[s]

\* A cycle that escalated has ended and the flag is clear again.
C2_Witness ==
    /\ Len(help_requests) >= 1
    /\ cycles[1] = <<>>
    /\ ~ is_processing[1]
    /\ call[1] = "connected"

(***************************************************************************)
(* The help request's status.                                              *)
(***************************************************************************)
Rank(status) ==
    CASE status = "pending" -> 1
      [] status = "resolved" -> 2
      [] status = "delivered" -> 3

\* C3: a help request's status only moves forward along pending, resolved,
\* delivered: no step moves a request back to an earlier status.
C3_StatusMovesForward ==
    [][\A r \in 1..Len(help_requests) :
          Rank(help_requests'[r].status) >= Rank(help_requests[r].status)]_vars

\* Whether the follow-up of request r is, or was, on the outbound channel of
\* the call of session s.
Emitted(s, r) ==
    \/ r \in heard[s]
    \/ \E i \in 1..Len(streams[s]) : streams[s][i].request = r

\* C4: in a single call, the poll cycle that follows the resolution of the
\* caller's request speaks the follow-up with the supervisor's answer and
\* sets the request to delivered: a delivered request has had its follow-up
\* put on the call's outbound channel.
C4_DeliveredWasSpoken ==
    \A r \in 1..Len(help_requests) :
        (call[1] = "connected" /\ help_requests[r].status = "delivered") => Emitted(1, r)

\* Whether some help request is both resolved and owned by the caller of the
\* call of session s.
OwnsResolved(s) ==
    \E r \in 1..Len(help_requests) :
        /\ help_requests[r].status = "resolved"
        /\ help_requests[r].caller_id = CustomerId(customers, current_phone[s])

\* C5: a poll cycle in which no help request is both resolved and owned by
\* the active caller changes nothing in the persisted store and emits nothing
\* on the outbound channel.
C5_IdlePollHasNoEffect ==
    [][\A s \in Sessions :
          (PollWakes(s) /\ ~ OwnsResolved(s)) =>
              (UNCHANGED store /\ UNCHANGED streams /\ UNCHANGED heard)]_vars

\* C6: with several calls at once, a supervisor's answer is spoken only into
\* a call whose caller is the one the request was created for, whatever the
\* calls' metadata.
C6_NoCrossDelivery ==
    \A s \in Sessions : \A r \in heard[s] : asked_by[r] = CallerOf(s)

\* Whether a call of the customer who owns request r is active.
HasActiveCall(r) ==
    \E s \in Sessions :
        /\ call[s] \in {"greeting", "connected"}
        /\ CustomerId(customers, current_phone[s]) = help_requests[r].caller_id

\* C7: a resolved help request whose caller has no active call is never
\* moved to delivered, also after earlier calls of that caller have ended.
C7_DeliveredOnlyInActiveCall ==
    [][\A r \in 1..Len(help_requests) :
          (help_requests[r].status = "resolved" /\ help_requests'[r].status = "delivered")
              => HasActiveCall(r)]_vars

(***************************************************************************)
(* Escalation.                                                             *)
(***************************************************************************)
\* Cycle i of session s takes the step in which _get_reply receives a
\* generative reply that holds an escalation phrase.
EscalationStep(s, i) ==
    /\ i \in 1..Len(cycles[s])
    /\ i \in 1..Len(cycles'[s])
    /\ cycles[s][i].pc = "llm"
    /\ cycles'[s][i].pc = "tts"
    /\ cycles'[s][i].llm # None
    /\ \E j \in 1..Len(escalation_phrases) :
           Contains(Lower(Chars[cycles'[s][i].llm]), escalation_phrases[j])

\* The pending help request _get_reply writes for cycle i of session s.
PendingRequest(s, i) ==
    [question |-> cycles[s][i].text,
     caller_id |-> CustomerId(customers', current_phone[s]),
     status |-> "pending", supervisor_answer |-> None]

\* C8 as stated: whenever the generative reply holds an escalation phrase,
\* _get_reply creates exactly one pending help request for the caller's
\* customer and returns the hand-off phrase.
C8_AlwaysOneRequest ==
    [][\A s \in Sessions : \A i \in 1..Len(cycles[s]) :
          EscalationStep(s, i) =>
              /\ cycles'[s][i].reply = HandOffEscalation
              /\ help_requests' = Append(help_requests, PendingRequest(s, i))]_vars

\* C8 as amended: whenever the generative reply holds an escalation phrase,
\* _get_reply returns the hand-off phrase, and it creates exactly one pending
\* help request for the caller's customer unless the customer lookup or the
\* help request write fails, in which case it creates none.
C8_OneRequestUnlessStoreFails ==
    [][\A s \in Sessions : \A i \in 1..Len(cycles[s]) :
          EscalationStep(s, i) =>
              /\ cycles'[s][i].reply = HandOffEscalation
              /\ CustomerId(customers', current_phone[s]) # 0 \/ cycles'[s][i].db = "fail_customer"
              /\ help_requests' =
                     IF cycles'[s][i].db = "ok"
                     THEN Append(help_requests, PendingRequest(s, i))
                     ELSE help_requests]_vars

\* The generative reply held an escalation phrase in other letter case, the
\* store answered, and the pending request is the last row.
C8_Witness ==
    \E s \in Sessions :
        /\ Len(cycles[s]) = 1
        /\ cycles[s][1].pc = "tts"
        /\ cycles[s][1].llm = "I'm Not Sure, let me check."
        /\ cycles[s][1].db = "ok"
        /\ cycles[s][1].reply = HandOffEscalation
        /\ help_requests # <<>>
        /\ help_requests[Len(help_requests)].status = "pending"
        /\ help_requests[Len(help_requests)].question = cycles[s][1].text

\* C9: a failed generative call is treated as a generative reply that holds
\* an escalation phrase: _get_reply returns one and the same hand-off phrase.
C9_SameHandOffPhrase ==
    \A s \in Sessions : \A i \in 1..Len(cycles[s]) :
        (cycles[s][i].pc = "tts" /\ cycles[s][i].outcome \in {"escalated", "llm_failed"}) =>
            cycles[s][i].reply = ReplyOnMiss("I'm Not Sure, let me check.")

\* The ways a cycle ends without resolving through the generative service.
Dropped == {"stt_error", "empty", "too_short", "noise_word", "not_a_question", "kb_hit"}

\* C10: each reply cycle creates at most one help request, and a cycle that
\* ends by empty transcript, filter drop or knowledge-base hit creates none.
C10_AtMostOneRequestPerCycle ==
    \A i \in 1..Len(cycles[1]) :
        /\ Len(help_requests) - cycles[1][i].base <= 1
        /\ cycles[1][i].outcome \in Dropped => Len(help_requests) = cycles[1][i].base

\* A cycle has created its one help request, and is about to end.
C10_Witness ==
    /\ Len(cycles[1]) = 1
    /\ cycles[1][1].pc = "cooldown"
    /\ cycles[1][1].outcome \in {"escalated", "llm_failed"}
    /\ Len(help_requests) = cycles[1][1].base + 1

\* _get_reply is entered by cycle i of session s in this step: the transcript
\* has passed the filter and the cycle goes on to the lookup's outcome.
ReplyLookup(s, i) ==
    /\ i \in 1..Len(cycles[s])
    /\ i \in 1..Len(cycles'[s])
    /\ cycles[s][i].pc = "transcribe"
    /\ cycles'[s][i].pc \in {"tts", "llm"}

\* C11: when the knowledge base has an answer for the caller's text,
\* _get_reply returns exactly that stored answer: the cycle goes straight to
\* speaking it, no generative request is made, and no Customer and no
\* HelpRequest is created.
C11_KbHitAnswersDirectly ==
    [][\A s \in Sessions : \A i \in 1..Len(cycles[s]) :
          (/\ ReplyLookup(s, i)
           /\ get_answer(knowledge_base, cycles'[s][i].text) # NoAnswer)
          => /\ cycles'[s][i].pc = "tts"
             /\ cycles'[s][i].reply
                    = get_answer(knowledge_base, cycles'[s][i].text)
             /\ cycles'[s][i].llm = None
             /\ customers' = customers
             /\ help_requests' = help_requests]_vars

\* A cycle is about to speak the stored hours answer it found for "What are
\* your hours?", and the store holds no customer and no request.
C11_Witness ==
    \E i \in 1..Len(cycles[1]) :
        /\ cycles[1][i].pc = "tts"
        /\ cycles[1][i].text = "What are your hours?"
        /\ cycles[1][i].reply = initial_data[1].answer
        /\ cycles[1][i].outcome = "kb_hit"
        /\ customers = <<>>
        /\ help_requests = <<>>

Emits(s) == Len(cycles'[s]) = Len(cycles[s]) + 1

\* The detector of session s is idle: nothing buffered, no speech seen.
Idle(d) == d.buffer = 0 /\ ~ d.speech_started

\* C13 as stated: on a frame received while no reply cycle is in flight, the
\* detector emits an utterance if and only if the buffered audio holds at
\* least 1.5 s of speech and ends with at least 0.8 s of silence and does not
\* exceed the ceiling; on emission it is reset to Idle, and when the ceiling
\* is exceeded it is reset with no emission.
C13_EmitsOnSpeechDuration ==
    [][\A s \in Sessions : \A ms \in ShortFrames \cup FrameDurations : \A sp \in BOOLEAN :
          (Frame(s, ms, sp) /\ ~ is_processing[s])
          => LET total  == detector[s].buffer + ms
                 speech == detector[s].speech + (IF sp THEN ms ELSE 0)
                 quiet  == IF sp \/ speech = 0 THEN 0 ELSE detector[s].quiet + ms
             IN  /\ Emits(s) <=> /\ speech >= min_dur
                                 /\ quiet >= min_silence
                                 /\ total <= max_dur
                 /\ Emits(s) => Idle(detector'[s])
                 /\ total > max_dur => Idle(detector'[s]) /\ ~ Emits(s)]_vars

\* C13, amended: the 1.5 s are measured on the whole buffered audio, silence
\* before and between the speech included; the buffer only has to hold some
\* speech.
C13_EmitsOnBufferedDuration ==
    [][\A s \in Sessions : \A ms \in ShortFrames \cup FrameDurations : \A sp \in BOOLEAN :
          (Frame(s, ms, sp) /\ ~ is_processing[s])
          => LET total  == detector[s].buffer + ms
                 speech == detector[s].speech + (IF sp THEN ms ELSE 0)
                 quiet  == IF sp \/ speech = 0 THEN 0 ELSE detector[s].quiet + ms
             IN  /\ Emits(s) <=> /\ speech > 0
                                 /\ total >= min_dur
                                 /\ quiet >= min_silence
                                 /\ total <= max_dur
                 /\ Emits(s) => Idle(detector'[s])
                 /\ total > max_dur => Idle(detector'[s]) /\ ~ Emits(s)]_vars

\* An utterance has been emitted: a cycle is in flight, the detector is idle
\* and still carries the trailing silence that completed the utterance.
C13_Witness ==
    /\ Len(cycles[1]) = 1
    /\ is_processing[1]
    /\ Idle(detector[1])
    /\ detector[1].silence_dur >= min_silence

\* cs without its trailing characters that are in drop.
RECURSIVE StripTrailing(_, _)
StripTrailing(cs, drop) ==
    IF cs # <<>> /\ cs[Len(cs)] \in drop
    THEN StripTrailing(SubSeq(cs, 1, Len(cs) - 1), drop)
    ELSE cs

\* The filler tokens the filter is specified to reject.
FillerTokens == {<<"u", "m">>, <<"y", "e", "s">>, <<"o", "k">>, <<"h", "i">>}

\* The texts that are a filler token once their trailing punctuation is
\* stripped and their case is folded.
FillerTranscripts ==
    {h : h \in {t \in Texts :
        StripTrailing(Lower(Chars[t]), {".", ",", "!", "?"}) \in FillerTokens}}

\* C14: every transcript that is a filler token ("um", "yes", "ok", "hi") once
\* its trailing punctuation is stripped and its case is folded is dropped
\* silently: the cycle goes to its end without a reply and the store is left
\* alone; the transcript "What are your hours?" reaches the resolver.
C14_FillersDropped ==
    [][\A s \in Sessions : \A i \in 1..Len(cycles[s]) :
          /\ \A r \in Utterances \cap FillerTranscripts :
                 TranscriptionReturns(s, i, r)
                 => /\ cycles'[s][i].pc = "cooldown"
                    /\ cycles'[s][i].reply = None
                    /\ UNCHANGED <<store, streams>>
          /\ TranscriptionReturns(s, i, "What are your hours?")
                 => cycles'[s][i].pc \in {"tts", "llm"}]_vars

\* The stripped texts that pass the length gate and the filler gate.
PastFirstGates ==
    {h : h \in {t \in Texts :
        /\ Len(Chars[t]) >= 3
        /\ StripSet(Lower(Chars[t]), {".", ",", "!", "?"}) \notin noise_words}}

\* The texts with a question word, a final '?' or at least three words.
LooksLikeQuestion ==
    {h : h \in {t \in Texts :
        \/ WordSet(Lower(Chars[t])) \cap question_words # {}
        \/ EndsWith(Chars[t], <<"?">>)
        \/ Len(Split(Lower(Chars[t]))) >= 3}}

\* C15: a transcript that passes the length gate and the filler gate reaches
\* the resolver if and only if it holds a question word, or ends with '?', or
\* has at least three words; otherwise it is dropped silently, with no reply
\* and no escalation.
C15_ThreeWordsPass ==
    [][\A s \in Sessions : \A i \in 1..Len(cycles[s]) :
       \A r \in Utterances :
          (TranscriptionReturns(s, i, r) /\ Stripped(r) \in PastFirstGates)
          => IF Stripped(r) \in LooksLikeQuestion
             THEN cycles'[s][i].pc \in {"tts", "llm"}
             ELSE /\ cycles'[s][i].pc = "cooldown"
                  /\ cycles'[s][i].reply = None
                  /\ UNCHANGED <<store, streams>>]_vars

\* The rows of kb that the query hits in the tier.
HitsIn(kb, question, tier) ==
    {i \in 1..Len(kb) : <<question, kb[i].question, tier>> \in TierTable}

\* C16: get_answer returns the first hit in strict tier order: the answer it
\* gives for a text is that of the earliest-stored row among the hits of the
\* lowest-numbered tier that has a hit, and it gives no answer exactly when
\* no tier has a hit.
C16_LowestTierEarliestRow ==
    [][\A s \in Sessions : \A i \in 1..Len(cycles[s]) :
          ReplyLookup(s, i)
          => LET text   == cycles'[s][i].text
                 kb     == knowledge_base
                 result == IF cycles'[s][i].pc = "tts" THEN cycles'[s][i].reply
                           ELSE NoAnswer
             IN  \/ /\ result = NoAnswer
                    /\ \A tier \in 1..4 : HitsIn(kb, text, tier) = {}
                 \/ \E tier \in 1..4 : \E row \in HitsIn(kb, text, tier) :
                       /\ \A lower \in 1..tier - 1 : HitsIn(kb, text, lower) = {}
                       /\ \A other \in HitsIn(kb, text, tier) : row <= other
                       /\ result = kb[row].answer]_vars

\* The cycle is about to speak the answer of the eighth row for "Walk ins?",
\* which equals that row's question, while the sixth row holds the query as
\* a substring.
C16_Witness ==
    \E i \in 1..Len(cycles[1]) :
        /\ cycles[1][i].pc = "tts"
        /\ cycles[1][i].text = "Walk ins?"
        /\ cycles[1][i].reply = initial_data[8].answer
        /\ HitsIn(knowledge_base, "Walk ins?", 1) = {8}
        /\ 6 \in HitsIn(knowledge_base, "Walk ins?", 2)

\* C17: on the seeded knowledge base, "what are your hours" and "when are you
\* open" resolve through get_answer to one and the same stored answer.
C17_SameHoursAnswer ==
    \A i \in 1..Len(cycles[1]) :
        (/\ cycles[1][i].pc = "tts"
         /\ cycles[1][i].text \in {"what are your hours", "when are you open"})
        => \A q \in {"what are your hours", "when are you open"} :
              cycles[1][i].reply = get_answer(knowledge_base, q)

\* The pairs <<query, stored question>>, over the texts of the universe, that
\* share a word once both are normalised as get_answer normalises them.
SharedWordTable ==
    {h : h \in {p \in Texts \X Texts :
        WordSet(NormalizeQuery(Chars[p[1]])) \cap WordSet(NormalizeStored(Chars[p[2]])) # {}}}

\* The query shares no word with any stored question of kb.
Unrelated(kb, question) ==
    \A row \in 1..Len(kb) : <<question, kb[row].question>> \notin SharedWordTable

\* C18: a query that passes the transcript filter and shares no word with any
\* stored question gets no answer from get_answer and goes on to the
\* generative request.
C18_UnrelatedGetsNoAnswer ==
    [][\A s \in Sessions : \A i \in 1..Len(cycles[s]) :
          (ReplyLookup(s, i) /\ Unrelated(knowledge_base, cycles'[s][i].text))
          => /\ get_answer(knowledge_base, cycles'[s][i].text) = NoAnswer
             /\ cycles'[s][i].pc = "llm"]_vars

\* ceil(a / b)
CeilDiv(a, b) == (a + b - 1) \div b

\* The loop of the task is over.
Streamed(task) == task.at >= task.pcm

\* C19: for a decoded payload of any length, _stream_audio hands the audio
\* source ceil(length / 1920) frames, in order, each of exactly 1920 bytes:
\* the frames hold the consecutive slices of the payload, which together are
\* the whole payload, and only the last frame is padded with zero bytes.
C19_FramesCoverPayload ==
    \A i \in 1..Len(streams[1]) :
        LET task == streams[1][i]
            sent == task.sent
        IN  /\ Len(sent) <= CeilDiv(task.pcm, chunk)
            /\ Streamed(task) => Len(sent) = CeilDiv(task.pcm, chunk)
            /\ \A k \in 1..Len(sent) :
                  /\ (sent[k].upto - sent[k].from) + sent[k].zeros = chunk
                  /\ sent[k].from = IF k = 1 THEN 0 ELSE sent[k - 1].upto
                  /\ sent[k].upto > sent[k].from
                  /\ sent[k].zeros > 0 => k = CeilDiv(task.pcm, chunk)
            /\ (Streamed(task) /\ sent # <<>>) => sent[Len(sent)].upto = task.pcm

\* The task of a payload of 1921 bytes has handed over its two frames: the
\* second holds the last byte and 1919 zero bytes.
C19_Witness ==
    \E i \in 1..Len(streams[1]) :
        /\ streams[1][i].pcm = chunk + 1
        /\ Streamed(streams[1][i])
        /\ Len(streams[1][i].sent) = 2
        /\ streams[1][i].sent[2] = [from |-> chunk, upto |-> chunk + 1, zeros |-> chunk - 1]

\* C20: when the synthesis of a reply gives no audio (a status other than 200
\* or an empty payload), speak hands no frame to the audio source, starts no
\* stream, tries nothing else and raises nothing: the reply cycle goes on to
\* its finally clause with the flag still set, and the only step a cycle takes
\* from there ends it and clears the flag.
C20_SilentOnSynthesisFailure ==
    [][\A s \in Sessions : \A i \in 1..Len(cycles[s]) :
          /\ ReplySpoken(s, i, 0)
                 => /\ streams' = streams
                    /\ heard' = heard
                    /\ cycles'[s][i].pc = "cooldown"
                    /\ cycles'[s][i].reply = None
                    /\ is_processing'[s]
          /\ (cycles[s][i].pc = "cooldown" /\ cycles'[s] # cycles[s])
                 => /\ cycles'[s] = RemoveAt(cycles[s], i)
                    /\ ~ is_processing'[s]
                    /\ UNCHANGED <<streams, heard, store>>]_vars

\* The synthesis of a knowledge base answer has failed while the greeting's
\* audio still fills the backlog: the cycle is at its finally clause and no
\* stream was started for the reply.
C20_Witness ==
    \E i \in 1..Len(cycles[1]) :
        /\ cycles[1][i].pc = "cooldown"
        /\ cycles[1][i].outcome = "kb_hit"
        /\ Len(streams[1]) = 1
        /\ Backlog(streams[1]) = MaxBacklog
        /\ is_processing[1]

\* C21: once _run_call has failed, handle_call neither returns nor raises: the
\* call stays trapped for ever, and the handler does nothing more: no poller
\* and no reply cycle exists for the call and nothing new is spoken.  A call
\* ends only by the room's disconnection while it is served.
C21_TrappedForEver ==
    [][\A s \in Sessions :
          /\ call[s] = "trapped"
                 => /\ call'[s] = "trapped"
                    /\ cycles'[s] = <<>>
                    /\ poller'[s] = NoPoller
                    /\ ~ is_processing'[s]
                    /\ Backlog(streams'[s]) <= Backlog(streams[s])
          /\ (call[s] # "ended" /\ call'[s] = "ended") => call[s] = "connected"]_vars

\* _run_call has failed after the greeting's speak returned; no audio of the
\* greeting is left to play.
C21_Witness ==
    /\ call[1] = "trapped"
    /\ current_phone[1] # None
    /\ streams[1] = <<>>
    /\ cycles[1] = <<>>
    /\ poller[1] = NoPoller

\* C22: for every frame whose rate R is not 16000 and every length, the
\* resampled frame has floor(length * 16000 / R) samples, and each output
\* sample j (from 0) copies the input sample whose index is nearest to its
\* position j * R / 16000 in the input.
C22_NearestNeighbour ==
    LET frame == detector[1]
    IN  frame.resampled
        => /\ Len(frame.indices) = (frame.len * 16000) \div frame.rate
           /\ \A j \in 1..Len(frame.indices) :
                 LET twice == 2 * (16000 * frame.indices[j] - (j - 1) * frame.rate)
                 IN  /\ frame.indices[j] \in 0..frame.len - 1
                     /\ twice <= 16000
                     /\ - twice <= 16000

\* C23: a help request is set to delivered only after a frame of the follow-up
\* with its answer has been handed to the audio source of a call: in the step
\* that sets it to delivered, the follow-up has already been heard in some
\* call.
C23_HeardBeforeDelivered ==
    [][\A r \in 1..Len(help_requests) :
          (/\ Len(help_requests') = Len(help_requests)
           /\ help_requests[r].status # "delivered"
           /\ help_requests'[r].status = "delivered")
          => \E s \in Sessions : r \in heard[s]]_vars

\* C24: after any frame the detector holds at most 8 s of audio.  A frame that
\* takes the buffer past 8 s empties the buffer and resets the detector to
\* idle without an utterance, also when the buffer ends with 0.8 s of silence
\* after speech.
C24_CeilingFirst ==
    [][\A s \in Sessions : \A ms \in ShortFrames \cup FrameDurations : \A sp \in BOOLEAN :
          (Frame(s, ms, sp) /\ ~ is_processing[s])
          => /\ detector'[s].buffer <= max_dur
             /\ detector[s].buffer + ms > max_dur
                    => /\ Idle(detector'[s])
                       /\ ~ Emits(s)
                       /\ ~ is_processing'[s]]_vars

\* The detector holds 7.5 s of audio that a silent frame of 1 s would
\* complete as an utterance (speech seen, 0.5 s of trailing silence) and
\* take past the ceiling.
C24_Witness ==
    /\ detector[1].buffer = 7500
    /\ detector[1].speech_started
    /\ detector[1].silence_dur = 500
    /\ ~ is_processing[1]
    /\ call[1] = "connected"

\* C25: while a reply cycle is in flight the frames that arrive are left out
\* of the segmentation: they leave the detector as it is and start no cycle,
\* and the detector goes on from that state once the flag is cleared (the step
\* that clears the flag leaves the detector as it is too).
C25_FramesSkippedInFlight ==
    [][\A s \in Sessions :
          /\ \A ms \in ShortFrames \cup FrameDurations : \A sp \in BOOLEAN :
                 (Frame(s, ms, sp) /\ is_processing[s])
                 => /\ detector'[s] = detector[s]
                    /\ cycles'[s] = cycles[s]
                    /\ is_processing'[s]
          /\ (is_processing[s] /\ ~ is_processing'[s]) => detector'[s] = detector[s]]_vars

\* A reply cycle of call 1 is in flight while the call is connected and its
\* audio goes on arriving; the detector holds what the dispatch left.
C25_Witness ==
    /\ call[1] = "connected"
    /\ is_processing[1]
    /\ Len(cycles[1]) > 0
    /\ Idle(detector[1])
    /\ detector[1].silence_dur >= min_silence

\* C26: however the get_or_create_customer calls of concurrent sessions
\* interleave, the customers table holds at most one row per phone number and
\* every call made for a phone number returns the id of that row.
C26_OneCustomerPerPhone ==
    /\ \A i, j \in 1..Len(customers) : customers[i] = customers[j] => i = j
    /\ \A s \in Sessions : \A i \in 1..Len(cycles[s]) :
           /\ cycles[s][i].pc # "raised"
           /\ cycles[s][i].pc = "returned"
              => cycles[s][i].customer = CustomerId(customers, current_phone[s])

\* C27: when the customer lookup or the help request write fails during an
\* escalation (after a generative reply that asks for it, or after a failed
\* generative call), _get_reply does not raise: the cycle goes on to speak the
\* hand-off phrase of its path, and the help_requests table is as it was.
C27_StoreFailureStillHandsOff ==
    [][\A s \in Sessions : \A i \in 1..Len(cycles[s]) :
          ( /\ cycles[s][i].pc = "llm"
            /\ cycles'[s][i].pc # "llm"
            /\ cycles'[s][i].db \in {"fail_customer", "fail_request"} )
          => /\ cycles'[s][i].pc = "tts"
             /\ cycles'[s][i].reply =
                    IF cycles'[s][i].llm \in {None, ""} THEN HandOffFailure
                    ELSE HandOffEscalation
             /\ help_requests' = help_requests
             /\ asked_by' = asked_by]_vars

\* The store failed during the escalation of a question the generative
\* service had asked to hand off, and the cycle is about to speak the hand-off
\* phrase while no help request exists.
C27_Witness ==
    \E s \in Sessions :
        /\ Len(cycles[s]) = 1
        /\ cycles[s][1].pc = "tts"
        /\ cycles[s][1].outcome = "escalated"
        /\ cycles[s][1].db = "fail_request"
        /\ cycles[s][1].reply = HandOffEscalation
        /\ help_requests = <<>>

\* C28: once a supervisor has answered an escalated help request through the
\* dashboard, the same question asked again is answered from the knowledge
\* base with the supervisor's answer to that request, and no help request is
\* created for it.
C28_AnsweredQuestionServedFromKb ==
    [][\A s \in Sessions : \A i \in 1..Len(cycles[s]) : \A r \in 1..Len(help_requests) :
          ( /\ cycles[s][i].pc = "transcribe"
            /\ cycles'[s][i].pc \in {"tts", "llm"}
            /\ help_requests[r].status \in {"resolved", "delivered"}
            /\ help_requests[r].question = cycles'[s][i].text )
          => /\ cycles'[s][i].pc = "tts"
             /\ cycles'[s][i].outcome = "kb_hit"
             /\ cycles'[s][i].reply = help_requests[r].supervisor_answer
             /\ help_requests' = help_requests]_vars

\* A _stream_audio task that has handed over a frame of its payload and has
\* frames left.
MidStream(task) == task.at > 0 /\ task.at < task.pcm

\* C29: the frames of two spoken texts are never interleaved on the outbound
\* channel of a call: no two _stream_audio tasks of the call are each between
\* two of their frames at once.
C29_OneStreamAtATime ==
    \A s \in Sessions : \A i, j \in 1..Len(streams[s]) :
        (MidStream(streams[s][i]) /\ MidStream(streams[s][j])) => i = j

\* C30: the silence buffered while no speech frame has been seen since the
\* last reset does not count toward an utterance: on a frame received while no
\* reply cycle is in flight, when the audio buffered from the first speech
\* frame on lasts at least 1.5 s, ends with at least 0.8 s of silence and
\* fits under the ceiling, the utterance is emitted, however much silence was
\* buffered before it.
C30_LeadingSilenceNotCounted ==
    [][\A s \in Sessions : \A ms \in ShortFrames \cup FrameDurations : \A sp \in BOOLEAN :
          (Frame(s, ms, sp) /\ ~ is_processing[s])
          => LET d    == Buffered(detector[s], ms, sp)
                 turn == d.buffer - d.lead
             IN  ( /\ d.speech > 0
                   /\ turn >= min_dur
                   /\ d.quiet >= min_silence
                   /\ turn <= max_dur )
                 => Emits(s)]_vars

====
